---- MODULE Spec2Model ----
(***************************************************************************)
(* The blogging API of api/index.js: the eight Express routes over the     *)
(* User and Post collections, the uploads directory and the JWT cookie.    *)
(***************************************************************************)
EXTENDS Integers, Sequences, FiniteSets, TLC

VARIABLES
  users,    \* the users collection, in insertion order
  posts,    \* the posts collection, in insertion order
  uploads,  \* the files of uploads/ after the handlers' renames
  pending,  \* User.create calls awaited by /register handlers
  running,  \* the node process is alive
  res,      \* the latest response, with the request it answers
  plain,    \* history: id of a user |-> the password given at registration
  proved,   \* history: id of the user of the latest login with the right password
  kept,     \* history: the cookie that login's response set (the client's copy)
  out,      \* history: a /logout was answered since that login
  made      \* history: the latest POST /post sent with a file and that cookie
            \* (who sent it, the id it was answered with, how many were sent)

vars == <<users, posts, uploads, pending, running, res, plain, proved, kept, out, made>>

-----------------------------------------------------------------------------
(* Bounds of the model *)

MaxPending == 2
MaxUploads == 1
MaxPosts == 2
MaxTime == 2

(* Inputs of the requests *)

Undefined == "<undefined>"
Usernames == {"alice", "bob", ""}
Passwords == {"pw1", "pw2", Undefined}
Salts == {"s1"}
Bodies ==
  {[title |-> "t1", summary |-> "s1", content |-> "c1"],
   [title |-> "t2", summary |-> "s2", content |-> "c2"]}
NoFile == <<>>
OriginalNames == {<<"cat", "png">>}

-----------------------------------------------------------------------------
(* bcryptjs *)

IsString(v) == v # Undefined

hashSync(password, salt) == [salt |-> salt, digest |-> <<salt, password>>]

compareSync_mut(password, hash) == hash.salt \in Salts

compareSync(password, hash) == hashSync(password, hash.salt) = hash

-----------------------------------------------------------------------------
(* jsonwebtoken and the signing key *)

secretDeclared == FALSE

NoCookie == [kind |-> "undefined", username |-> "", id |-> 0]
EmptyCookie == [kind |-> "empty", username |-> "", id |-> 0]
Forged == [kind |-> "forged", username |-> "", id |-> 0]

jwtSign(username, id) == [kind |-> "jwt", username |-> username, id |-> id]

jwtVerify(token) == token.kind = "jwt"

-----------------------------------------------------------------------------
(* The User model *)

UserSchema ==
  [username |-> [type |-> "String", required |-> TRUE, min |-> 4, unique |-> TRUE],
   password |-> [type |-> "String", required |-> TRUE]]

checkRequired(v) == IsString(v) /\ Len(v) > 0

\* min and max are validators of Number and Date paths; a String path has
\* minlength and maxlength, and no validator is registered for its min option
validatePath(path, v) ==
  /\ path.required => checkRequired(v)
  /\ (path.type = "Number" /\ "min" \in DOMAIN path) => v >= path.min

findOne(username) ==
  LET hits == {i \in 1..Len(users) : users[i].username = username}
  IN IF hits = {} THEN <<>>
     ELSE <<users[CHOOSE i \in hits : \A j \in hits : i <= j]>>

duplicateKey_mut(username) == FALSE

duplicateKey(username) ==
  UserSchema.username.unique /\ \E i \in 1..Len(users) : users[i].username = username

NewUser(username, hash) == [id |-> Len(users) + 1, username |-> username, password |-> hash]

-----------------------------------------------------------------------------
(* The Post model *)

ListLimit == 20

findById(id) ==
  LET hits == {i \in 1..Len(posts) : posts[i].id = id}
  IN IF hits = {} THEN <<>> ELSE <<posts[CHOOSE i \in hits : TRUE]>>

LastTime ==
  IF posts = <<>> THEN 1
  ELSE LET ts == {posts[i].createdAt : i \in 1..Len(posts)} \cup
                 {posts[i].updatedAt : i \in 1..Len(posts)}
       IN CHOOSE t \in ts : \A u \in ts : u <= t

\* a post as a response carries it when its author is not populated: the
\* reference is the id alone
unpopulated(p) == [p EXCEPT !.author = [id |-> p.author, username |-> Undefined]]

populate(p) ==
  LET hits == {i \in 1..Len(users) : users[i].id = p.author}
  IN [p EXCEPT !.author =
        IF hits = {} THEN [id |-> 0, username |-> Undefined]
        ELSE LET u == users[CHOOSE i \in hits : TRUE]
             IN [id |-> u.id, username |-> u.username]]

Take(s, n) == IF Len(s) <= n THEN s ELSE SubSeq(s, 1, n)

\* the orders sort({createdAt: -1}) may return: every arrangement of the
\* collection in which createdAt never increases
SortedNewestFirst ==
  {s \in [1..Len(posts) -> {posts[i] : i \in 1..Len(posts)}] :
     /\ \A i, j \in 1..Len(posts) : i # j => s[i] # s[j]
     /\ \A i, j \in 1..Len(posts) : i < j => s[i].createdAt >= s[j].createdAt}

-----------------------------------------------------------------------------
(* The upload middleware and the rename of the handlers *)

NextPath == Cardinality(uploads) + 1

ext(originalname) == originalname[Len(originalname)]

newPathOf(path, originalname) == [path |-> path, ext |-> ext(originalname)]

-----------------------------------------------------------------------------
(* Requests and responses *)

NoReq ==
  [username |-> Undefined, password |-> Undefined, token |-> NoCookie, id |-> 0,
   title |-> Undefined, summary |-> Undefined, content |-> Undefined, file |-> NoFile]

Response(route, req, status, msg, cookie, userDocs, postDocs, info) ==
  [route |-> route, req |-> req, status |-> status, msg |-> msg, cookie |-> cookie,
   users |-> userDocs, posts |-> postDocs, info |-> info]

Json(route, req, status, msg) ==
  Response(route, req, status, msg, NoCookie, <<>>, <<>>, NoCookie)

\* an exception thrown out of a synchronous handler: the router answers 500
Thrown(route, req, msg) == Json(route, req, 500, msg)

\* an exception thrown inside an async handler is a rejected promise that
\* nothing catches: the request may stay unanswered (status 0), be answered
\* 500 by the router, or end the process
Rejected(route, req, msg) ==
  \E status \in {0, 500} : \E alive \in BOOLEAN :
    /\ (status = 500 => alive)
    /\ res' = Json(route, req, status, msg)
    /\ running' = alive

Tokens == {Forged, kept}

-----------------------------------------------------------------------------

Init ==
  /\ users = <<>>
  /\ posts = <<>>
  /\ uploads = {}
  /\ pending = {}
  /\ running = TRUE
  /\ res = Json("none", NoReq, 0, "")
  /\ plain = <<>>
  /\ proved = 0
  /\ kept = NoCookie
  /\ out = FALSE
  /\ made = [by |-> 0, id |-> 0, n |-> 0]

-----------------------------------------------------------------------------
(* app.post('/register') up to the await of User.create *)

RegisterBegin(username, password) ==
  LET req == [NoReq EXCEPT !.username = username, !.password = password]
  IN /\ running
     /\ \E salt \in Salts :
          IF ~IsString(password)
          THEN /\ res' = Json("POST /register", req, 400, "Illegal arguments")
               /\ pending' = pending
          ELSE /\ Cardinality(pending) < MaxPending
               /\ pending' = pending \cup
                    {[username |-> username, password |-> password,
                      hash |-> hashSync(password, salt)]}
               /\ res' = res
     /\ UNCHANGED <<users, posts, uploads, running, plain, proved, kept, out, made>>

(* User.create in the store, and the rest of the handler *)

UserCreate_mut(p) ==
  IF ~validatePath(UserSchema.username, p.username)
  THEN [ok |-> FALSE, error |-> "ValidationError", users |-> users]
  ELSE IF duplicateKey(p.username)
  THEN [ok |-> TRUE, error |-> "",
        users |-> [i \in 1..Len(users) |->
                     IF users[i].username = p.username
                     THEN [users[i] EXCEPT !.password = p.hash] ELSE users[i]]]
  ELSE [ok |-> TRUE, error |-> "", users |-> Append(users, NewUser(p.username, p.hash))]

UserCreate(p) ==
  IF ~validatePath(UserSchema.username, p.username)
  THEN [ok |-> FALSE, error |-> "ValidationError", users |-> users]
  ELSE IF duplicateKey(p.username)
  THEN [ok |-> FALSE, error |-> "E11000 duplicate key", users |-> users]
  ELSE [ok |-> TRUE, error |-> "", users |-> Append(users, NewUser(p.username, p.hash))]

RegisterEnd(p) ==
  LET req == [NoReq EXCEPT !.username = p.username, !.password = p.password]
      r == UserCreate(p)
  IN /\ running
     /\ p \in pending
     /\ pending' = pending \ {p}
     /\ users' = r.users
     /\ IF r.ok
        THEN /\ plain' = Append(plain, p.password)
             /\ res' = Response("POST /register", req, 200, "", NoCookie,
                                <<users'[Len(users')]>>, <<>>, NoCookie)
        ELSE /\ plain' = plain
             /\ res' = Json("POST /register", req, 400, r.error)
     /\ UNCHANGED <<posts, uploads, running, proved, kept, out, made>>

-----------------------------------------------------------------------------
(* app.post('/login') *)

Login(username, password) ==
  LET req == [NoReq EXCEPT !.username = username, !.password = password]
      found == findOne(username)
      userDoc == found[1]
  IN /\ running
     /\ IF found = <<>>
        THEN Rejected("POST /login", req, "TypeError: userDoc is null")
        ELSE IF ~IsString(password)
        THEN Rejected("POST /login", req, "Illegal arguments")
        ELSE IF compareSync(password, userDoc.password)
        THEN IF ~secretDeclared
             THEN Rejected("POST /login", req, "ReferenceError: secret is not defined")
             ELSE /\ res' = Response("POST /login", req, 200, "",
                                     jwtSign(username, userDoc.id),
                                     <<[id |-> userDoc.id, username |-> username]>>,
                                     <<>>, NoCookie)
                  /\ running' = running
        ELSE /\ res' = Json("POST /login", req, 400, "wrong credentials")
             /\ running' = running
     /\ IF found # <<>> /\ password = plain[userDoc.id]
        THEN /\ proved' = userDoc.id
             /\ kept' = res'.cookie
             /\ out' = FALSE
        ELSE UNCHANGED <<proved, kept, out>>
     /\ UNCHANGED <<users, posts, uploads, pending, plain, made>>

(* app.get('/profile') *)

Profile(token) ==
  LET req == [NoReq EXCEPT !.token = token]
  IN /\ running
     /\ res' = IF ~secretDeclared
               THEN Thrown("GET /profile", req, "ReferenceError: secret is not defined")
               ELSE IF ~jwtVerify(token)
               THEN Thrown("GET /profile", req, "JsonWebTokenError")
               ELSE Response("GET /profile", req, 200, "", NoCookie, <<>>, <<>>, token)
     /\ UNCHANGED <<users, posts, uploads, pending, running, plain, proved, kept, out, made>>

(* app.post('/logout') *)

Logout ==
  /\ running
  /\ res' = Response("POST /logout", NoReq, 200, "ok", EmptyCookie, <<>>, <<>>, NoCookie)
  /\ out' = (proved # 0)
  /\ UNCHANGED <<users, posts, uploads, pending, running, plain, proved, kept, made>>

-----------------------------------------------------------------------------
(* app.post('/post') *)

CreatePost(file, token, body) ==
  LET req == [NoReq EXCEPT !.file = file, !.token = token, !.title = body.title,
                           !.summary = body.summary, !.content = body.content]
      newPath == newPathOf(NextPath, file)
  IN /\ running
     /\ IF file = NoFile
        THEN /\ Rejected("POST /post", req, "TypeError: req.file is undefined")
             /\ UNCHANGED <<uploads, posts>>
        ELSE /\ Cardinality(uploads) < MaxUploads
             /\ uploads' = uploads \cup {newPath}
             /\ IF ~secretDeclared
                THEN /\ Rejected("POST /post", req, "ReferenceError: secret is not defined")
                     /\ posts' = posts
                ELSE IF ~jwtVerify(token)
                THEN /\ Rejected("POST /post", req, "JsonWebTokenError")
                     /\ posts' = posts
                ELSE /\ Len(posts) < MaxPosts
                     /\ \E t \in LastTime..MaxTime :
                          posts' = Append(posts,
                            [id |-> Len(posts) + 1, title |-> body.title,
                             summary |-> body.summary, content |-> body.content,
                             cover |-> newPath, author |-> token.id,
                             createdAt |-> t, updatedAt |-> t])
                     /\ res' = Response("POST /post", req, 200, "", NoCookie, <<>>,
                                        <<unpopulated(posts'[Len(posts')])>>, NoCookie)
                     /\ running' = running
     /\ made' = IF file # NoFile /\ proved # 0 /\ token = kept
                THEN [by |-> proved,
                      id |-> IF res'.posts = <<>> THEN 0 ELSE res'.posts[1].id,
                      n |-> made.n + 1]
                ELSE made
     /\ UNCHANGED <<users, pending, plain, proved, kept, out>>

(* app.put('/post') *)

UpdatePost(id, file, token, body) ==
  LET req == [NoReq EXCEPT !.id = id, !.file = file, !.token = token,
                           !.title = body.title, !.summary = body.summary,
                           !.content = body.content]
      found == findById(id)
      postDoc == found[1]
  IN /\ running
     /\ IF file = NoFile
        THEN uploads' = uploads
        ELSE /\ Cardinality(uploads) < MaxUploads
             /\ uploads' = uploads \cup {newPathOf(NextPath, file)}
     /\ IF ~secretDeclared
        THEN /\ Rejected("PUT /post", req, "ReferenceError: secret is not defined")
             /\ posts' = posts
        ELSE IF ~jwtVerify(token)
        THEN /\ Rejected("PUT /post", req, "JsonWebTokenError")
             /\ posts' = posts
        ELSE IF found = <<>>
        THEN /\ Rejected("PUT /post", req, "TypeError: postDoc is null")
             /\ posts' = posts
        ELSE IF postDoc.author # token.id
        THEN /\ res' = Json("PUT /post", req, 400, "you are not the author")
             /\ running' = running
             /\ posts' = posts
        ELSE /\ \E t \in LastTime..MaxTime :
                  posts' = [i \in 1..Len(posts) |->
                    IF posts[i].id # id THEN posts[i]
                    ELSE [posts[i] EXCEPT
                            !.title = body.title, !.summary = body.summary,
                            !.content = body.content,
                            !.cover = IF file # NoFile THEN newPathOf(NextPath, file)
                                      ELSE postDoc.cover,
                            !.updatedAt = t]]
             /\ res' = Response("PUT /post", req, 200, "", NoCookie, <<>>,
                                <<unpopulated(postDoc)>>, NoCookie)
             /\ running' = running
     /\ UNCHANGED <<users, pending, plain, proved, kept, out, made>>

(* app.get('/post') *)

ListPosts ==
  /\ running
  /\ \E s \in SortedNewestFirst :
       LET page == Take(s, ListLimit)
       IN res' = Response("GET /post", NoReq, 200, "", NoCookie, <<>>,
                          [i \in 1..Len(page) |-> populate(page[i])], NoCookie)
  /\ UNCHANGED <<users, posts, uploads, pending, running, plain, proved, kept, out, made>>

(* app.get('/post/:id') *)

GetPost(id) ==
  LET req == [NoReq EXCEPT !.id = id]
      found == findById(id)
  IN /\ running
     /\ res' = Response("GET /post/:id", req, 200, "", NoCookie, <<>>,
                        IF found = <<>> THEN <<>> ELSE <<populate(found[1])>>, NoCookie)
     /\ UNCHANGED <<users, posts, uploads, pending, running, plain, proved, kept, out, made>>

-----------------------------------------------------------------------------

PostIds == {0, made.id} \cup {posts[i].id : i \in 1..Len(posts)}

Next ==
  \/ \E username \in {"alice", "bob"}, password \in {"pw1", "pw2"} :
       RegisterBegin(username, password)
  \/ \E p \in pending : RegisterEnd(p)
  \/ \E username \in {"alice", "bob"}, password \in {"pw1", "pw2"} : Login(username, password)
  \/ \E token \in Tokens : Profile(token)
  \/ Logout
  \/ \E file \in OriginalNames \cup {NoFile}, token \in Tokens, body \in Bodies :
       CreatePost(file, token, body)
  \/ \E id \in PostIds, file \in OriginalNames \cup {NoFile}, token \in Tokens, body \in Bodies :
       UpdatePost(id, file, token, body)
  \/ ListPosts
  \/ \E id \in PostIds : GetPost(id)

Spec == Init /\ [][Next]_vars

(* The account routes alone, over every username and password *)

NextAuth ==
  \/ \E username \in Usernames, password \in Passwords : RegisterBegin(username, password)
  \/ \E p \in pending : RegisterEnd(p)
  \/ \E username \in Usernames, password \in Passwords : Login(username, password)
  \/ \E token \in Tokens : Profile(token)
  \/ Logout

SpecAuth == Init /\ [][NextAuth]_vars

-----------------------------------------------------------------------------
(* Vocabulary of the properties *)

Registered(username) == \E i \in 1..Len(users) : users[i].username = username

UserNamed(username) == findOne(username)[1]

RightPassword(username, password) ==
  Registered(username) /\ plain[UserNamed(username).id] = password

WrongPassword(username, password) ==
  Registered(username) /\ IsString(password) /\ plain[UserNamed(username).id] # password

\* the request carries the cookie that the latest login with the right
\* password was answered with
SentAfterLogin(token) == proved # 0 /\ token = kept

Min(a, b) == IF a <= b THEN a ELSE b

-----------------------------------------------------------------------------
C2_UsernamesUnique ==
  /\ [](\A i, j \in 1..Len(users) : i # j => users[i].username # users[j].username)
  /\ [][\A p \in pending :
          (RegisterEnd(p) /\ Registered(p.username))
          => users' = users /\ res'.status = 400]_vars

C2_Witness ==
  /\ res.route = "POST /register" /\ res.status = 400
  /\ res.msg = "E11000 duplicate key"
  /\ Registered(res.req.username)
  /\ \E p \in pending : Registered(p.username)

\* C3: a login with a registered username and the password given at its
\* registration is answered 200 with {id, username} and a token cookie whose
\* verification yields that user's id and username.
C3_LoginIssuesToken ==
  [][\A username \in Usernames, password \in Passwords :
       (Login(username, password) /\ RightPassword(username, password))
       => /\ res'.status = 200
          /\ res'.users = <<[id |-> UserNamed(username).id, username |-> username]>>
          /\ jwtVerify(res'.cookie)
          /\ res'.cookie.id = UserNamed(username).id
          /\ res'.cookie.username = UserNamed(username).username]_vars

\* C4: a login with a registered username and another password than the
\* registered one is answered 400 "wrong credentials" and sets no cookie.
C4_WrongPasswordRefused ==
  [][\A username \in Usernames, password \in Passwords :
       (Login(username, password) /\ WrongPassword(username, password))
       => /\ res'.status = 400
          /\ res'.msg = "wrong credentials"
          /\ res'.cookie = NoCookie
          /\ kept' = kept]_vars

C4_Witness ==
  /\ res.route = "POST /login" /\ res.status = 400
  /\ res.msg = "wrong credentials"
  /\ WrongPassword(res.req.username, res.req.password)

C8_RecordsKept ==
  [][/\ \A i \in 1..Len(users) : Len(users') >= i /\ users'[i] = users[i]
     /\ \A i \in 1..Len(posts) :
          /\ Len(posts') >= i
          /\ posts'[i].id = posts[i].id
          /\ posts'[i].author = posts[i].author
          /\ (\/ posts'[i].title # posts[i].title
              \/ posts'[i].summary # posts[i].summary
              \/ posts'[i].content # posts[i].content
              \/ posts'[i].cover # posts[i].cover)
             => /\ res'.route = "PUT /post"
                /\ res'.req.id = posts[i].id
                /\ jwtVerify(res'.req.token)
                /\ res'.req.token.id = posts[i].author
     /\ \A i \in (Len(posts) + 1)..Len(posts') :
          /\ res'.route = "POST /post"
          /\ jwtVerify(res'.req.token)
          /\ posts'[i].author = res'.req.token.id]_vars

C8_Witness ==
  /\ Len(users) = 2
  /\ res.route = "POST /register" /\ res.status = 400
  /\ Registered(res.req.username)
  /\ plain[UserNamed(res.req.username).id] # res.req.password
  /\ made.by # 0
  /\ uploads # {}

C10_UsernameMinLength ==
  \A i \in 1..Len(users) : Len(users[i].username) >= UserSchema.username.min

====
